---- MODULE Spec2Model ----
(***************************************************************************)
(* market_pulse: the batch planner (lambdas/planner/handler.py), the       *)
(* retrying HTTP client and Alpha Vantage gateway                          *)
(* (lambdas/worker/alpha_vantage_client.py) and the ingestion worker       *)
(* (lamdas/worker/ingestion_alpha_vantage.py).                             *)
(*                                                                         *)
(* Python strings that the code compares, slices, formats or parses are    *)
(* sequences of ASCII codes, so that `<` on strings is the lexicographic   *)
(* order Python uses and strptime/int/f-string are computed, not assumed.  *)
(***************************************************************************)
EXTENDS Integers, Sequences, FiniteSets, TLC

VARIABLES
    \* ---- _request_with_retries / get_symbol_monthly_data (one call)
    rpc,             \* position: "idle", "loop", "returned", "raised", "done"
    attempt,         \* the for loop's variable
    response,        \* last response received (NoResponse = None)
    last_exception,  \* TRUE once a RequestException was caught
    events,          \* history: every HTTP attempt with its outcome, every backoff sleep
    result,          \* what the gateway operation returned (NoResult before)
    op,              \* the gateway operation that makes the call
    \* ---- planner handler (one invocation)
    event,           \* the trigger: batch_size, year_month_start, year_month_end
    now,             \* _parse_event_time_utc(event): year, month, day, hour (UTC)
    csv_symbols,     \* the "symbol" column of the universe table, as stored
    ppc,             \* position: "off", "start", "resolved", "covered", "read", "done", "error"
    perror,          \* the ValueError raised ("none" if none)
    year_month_start,       \* ingest range, as resolved
    year_month_end,
    glue_year_month_start,  \* coverage range
    glue_year_month_end,
    symbols,         \* the stripped symbol list
    plan,            \* the handler's return value (NoPlan before)
    \* ---- fetch_and_store_alpha_vantage_data (one worker run)
    winput,          \* start_year_month, end_year_month, symbols_subset, limit
    table,           \* the universe table: has_columns, rows of (symbol, start_date)
    utc_today,       \* datetime.utcnow() at the run's start: year, month
    wpc,             \* position: "off", "start", "validated", "symbols", "months", "done", "error"
    werror,          \* the exception the run raised ("none" if none)
    df,              \* the rows left after the subset filter and the limit
    max_end_year_month,
    idx,             \* the row of df the loop is at (1-based)
    gen,             \* the month_range generator of the current symbol
    st,              \* the statistics locals
    stats,           \* the returned "stats" (NoStats before)
    store,           \* bronze objects written: (symbol, month)
    requests,        \* history: every get_symbol_monthly_data call: row, symbol, month, ok
    skipped_rows,    \* history: the rows counted in skipped_symbols
    faults,          \* history: gateway calls that did not end ok and stored
    timeline,        \* history: the run's last two HTTP attempts and the sleeps since
                     \* the first of them, in order
    \* ---- the workers of one plan, invoked by the orchestrator
    universe,        \* the universe table the planner and the workers read (rows)
    invocations,     \* per worker invocation: position, batch, df, loop state
    bucket,          \* the bronze bucket: objects (key, body)
    fetched,         \* history: every gateway call of every invocation
    ffaults          \* history: gateway calls that did not end ok and stored

retryVars == <<rpc, attempt, response, last_exception, events, result, op>>

plannerVars == <<event, now, csv_symbols, ppc, perror, year_month_start, year_month_end,
                 glue_year_month_start, glue_year_month_end, symbols, plan>>

workerVars == <<winput, table, utc_today, wpc, werror, df, max_end_year_month, idx, gen,
                st, stats, store, requests, skipped_rows, faults, timeline>>

fleetVars == <<universe, invocations, bucket, fetched, ffaults>>

vars == <<retryVars, plannerVars, workerVars, fleetVars>>

----------------------------------------------------------------------------
(* Python strings as sequences of ASCII codes                              *)

Ord == [space |-> 32, dash |-> 45, slash |-> 47, zero |-> 48, nine |-> 57,
        A |-> 65, B |-> 66, a |-> 97, n |-> 110]

IsDigit(c) == c >= Ord.zero /\ c <= Ord.nine

\* Python's str < str: lexicographic by code point, a proper prefix is smaller.
RECURSIVE StrLess(_, _)
StrLess(s, t) ==
    IF t = <<>> THEN FALSE
    ELSE IF s = <<>> THEN TRUE
    ELSE IF Head(s) # Head(t) THEN Head(s) < Head(t)
    ELSE StrLess(Tail(s), Tail(t))

StrGreater(s, t) == StrLess(t, s)

\* Python's min(a, b) / max(a, b) on strings: the first argument wins a tie.
StrMin(s, t) == IF StrLess(t, s) THEN t ELSE s
StrMax(s, t) == IF StrGreater(t, s) THEN t ELSE s

\* str.strip(): leading and trailing whitespace removed.
RECURSIVE LStrip(_)
LStrip(s) == IF s # <<>> /\ Head(s) = Ord.space THEN LStrip(Tail(s)) ELSE s

RECURSIVE RStrip(_)
RStrip(s) ==
    IF s # <<>> /\ s[Len(s)] = Ord.space THEN RStrip(SubSeq(s, 1, Len(s) - 1)) ELSE s

Strip(s) == RStrip(LStrip(s))

\* int(s) for a string of decimal digits, surrounding whitespace allowed.
RECURSIVE DigitsValue(_)
DigitsValue(s) ==
    IF s = <<>> THEN 0
    ELSE 10 * DigitsValue(SubSeq(s, 1, Len(s) - 1)) + (s[Len(s)] - Ord.zero)

ParseInt(s) == DigitsValue(Strip(s))

\* f"{v:04d}" and f"{v:02d}" for 0 <= v <= 9999 / 0 <= v <= 99; f"{v}" for 1000 <= v <= 9999.
Fmt04(v) == << Ord.zero + ((v \div 1000) % 10), Ord.zero + ((v \div 100) % 10),
               Ord.zero + ((v \div 10) % 10), Ord.zero + (v % 10) >>
Fmt02(v) == << Ord.zero + ((v \div 10) % 10), Ord.zero + (v % 10) >>

\* f"{year:04d}-{month:02d}"
FormatYearMonth(year, month) == Fmt04(year) \o <<Ord.dash>> \o Fmt02(month)

\* f"{v}" for v >= 0: decimal, no padding
RECURSIVE FmtD(_)
FmtD(v) == IF v < 10 THEN <<Ord.zero + v>> ELSE FmtD(v \div 10) \o <<Ord.zero + (v % 10)>>

\* s[i:j] for 0 <= i <= j (the slice is clipped to the string)
Slice(s, i, j) == SubSeq(s, i + 1, IF j < Len(s) THEN j ELSE Len(s))

\* datetime.strptime(value.strip(), "%Y-%m") succeeds: the whole string matches
\* (\d\d\d\d)-(1[0-2]|0[1-9]|[1-9]) and the year is at least 1 (datetime.MINYEAR).
StrptimeYearMonthOK(value) ==
    LET t == Strip(value) IN
    /\ Len(t) \in {6, 7}
    /\ \A i \in 1..4 : IsDigit(t[i])
    /\ t[5] = Ord.dash
    /\ IF Len(t) = 6
       THEN t[6] >= Ord.zero + 1 /\ t[6] <= Ord.nine
       ELSE \/ (t[6] = Ord.zero + 1 /\ t[7] >= Ord.zero /\ t[7] <= Ord.zero + 2)
            \/ (t[6] = Ord.zero /\ t[7] >= Ord.zero + 1 /\ t[7] <= Ord.nine)
    /\ DigitsValue(SubSeq(t, 1, 4)) >= 1

----------------------------------------------------------------------------
(* alpha_vantage_client.py: _request_with_retries                          *)

RETRIES == 3

\* bounds of the worker runs explored
MaxRows == 2
MaxSpan == 3
MaxFaults == 1

RETRIABLE_STATUSMut == {404, 429, 500, 502, 503, 504}
RETRIABLE_STATUS == {429, 500, 502, 503, 504}

attemptsMut == 2 + RETRIES
attempts == 1 + RETRIES

NoResponse == [kind |-> "none", status_code |-> 0, content_type |-> "", body |-> ""]
Transport  == [kind |-> "exc",  status_code |-> 0, content_type |-> "", body |-> ""]

\* What the upstream can answer.  The body and the Content-Type are read only
\* of a 2xx response, so the other statuses carry one representative of each.
Statuses == {200, 299, 300, 404} \cup RETRIABLE_STATUS
ContentTypes == {"application/json", "text/html"}
\* "invalid": not JSON; "null": JSON, not an object; the others are objects
\* with neither, one or both of the fields "Note" and "Error Message".
Bodies == {"invalid", "null", "plain", "note", "error", "note+error"}

Responses ==
    { r \in [kind : {"resp"}, status_code : Statuses,
             content_type : ContentTypes, body : Bodies] :
        ~(r.status_code >= 200 /\ r.status_code < 300)
            => (r.content_type = "application/json" /\ r.body = "plain") }

Outcomes == {Transport} \cup Responses

IsSuccess(status_code) == 200 <= status_code /\ status_code < 300

\* except requests.RequestException: retry while attempt < attempts, else re-raise
OnRequestExceptionMut(att) == "raise"
OnRequestException(att) == IF att < attempts THEN "retry" ELSE "raise"

\* the status checks after a response was received
OnResponseMut(att, status_code) == IF att < attempts THEN "retry" ELSE "return"
OnResponse(att, status_code) ==
    IF IsSuccess(status_code) THEN "return"
    ELSE IF status_code \in RETRIABLE_STATUS /\ att < attempts THEN "retry"
    ELSE "return"

AttemptEv(o) == [ev |-> "attempt", out |-> o]
SleepEv      == [ev |-> "sleep",   out |-> NoResponse]

\* `continue`: the next iteration of range(1, attempts + 1), or, when the range
\* is used up, the statements after the loop.
AfterContinue(att, exc_seen) ==
    IF att + 1 <= attempts THEN "loop"
    ELSE IF exc_seen THEN "raised" ELSE "returned"

\* a gateway operation calls _request_with_retries
CallRequestWithRetries ==
    /\ rpc = "idle"
    /\ rpc' = "loop"
    /\ attempt' = 1
    /\ response' = NoResponse
    /\ last_exception' = FALSE
    /\ UNCHANGED <<events, result, op>>

\* one iteration of the for loop: sess.request and what follows it
RequestAttemptOf(o) ==
    /\ rpc = "loop"
    /\ attempt <= attempts
    /\ LET todo == IF o.kind = "exc" THEN OnRequestException(attempt)
                    ELSE OnResponse(attempt, o.status_code)
            exc_seen == last_exception \/ o.kind = "exc"
        IN  /\ response' = IF o.kind = "exc" THEN response ELSE o
            /\ last_exception' = exc_seen
            /\ events' = IF todo = "retry"
                         THEN events \o <<AttemptEv(o), SleepEv>>
                         ELSE Append(events, AttemptEv(o))
            /\ rpc' = CASE todo = "retry"  -> AfterContinue(attempt, exc_seen)
                        [] todo = "raise"  -> "raised"
                        [] todo = "return" -> "returned"
            /\ attempt' = IF todo = "retry" THEN attempt + 1 ELSE attempt
    /\ UNCHANGED <<result, op>>

RequestAttempt == \E o \in Outcomes : RequestAttemptOf(o)

----------------------------------------------------------------------------
(* alpha_vantage_client.py: get_symbol_monthly_data, after the request     *)

\* error is <<message, status code or 0>>
NoError == <<"", 0>>
NoResult == [ok |-> FALSE, error |-> NoError, exception |-> "pending", stored |-> FALSE]

ReturnedMut(ok, error, stored) ==
    [ok |-> ok, error |-> error, exception |-> "none", stored |-> TRUE]
Returned(ok, error, stored) ==
    [ok |-> ok, error |-> error, exception |-> "none", stored |-> stored]

\* lines 227-243: "Note" is looked up first, then "Error Message"; "" if the
\* object has neither
AdvisoryErrorMut(body) ==
    IF body \in {"error", "note+error"} THEN "data[Error Message]"
    ELSE IF body = "note" THEN "data[Note]"
    ELSE ""
AdvisoryError(body) ==
    IF body \in {"note", "note+error"} THEN "data[Note]"
    ELSE IF body = "error" THEN "data[Error Message]"
    ELSE ""

\* The validation pipeline.  raised: _request_with_retries raised
\* RequestException; resp: the response it returned otherwise; put_ok: whether
\* the put_object of save_bronze_raw succeeds (its failure is caught there).
GetSymbolMonthlyData(raised, resp, save, put_ok) ==
    IF raised THEN Returned(FALSE, <<"Failed to fetch data from Alpha Vantage API.", 0>>, FALSE)
    ELSE IF ~IsSuccess(resp.status_code)
        THEN Returned(FALSE, <<"Alpha Vantage API returned HTTP", resp.status_code>>, FALSE)
    ELSE IF resp.content_type # "application/json"
        THEN Returned(FALSE, <<"Unexpected response format.", 0>>, FALSE)
    ELSE IF resp.body = "invalid"
        THEN Returned(FALSE, <<"Invalid JSON from Alpha Vantage API.", 0>>, FALSE)
    ELSE IF resp.body = "null"
        \* `"Note" in data` with data = None: TypeError, caught nowhere
        THEN [ok |-> FALSE, error |-> NoError, exception |-> "TypeError", stored |-> FALSE]
    ELSE IF AdvisoryError(resp.body) # ""
        THEN Returned(FALSE, <<AdvisoryError(resp.body), 0>>, FALSE)
    ELSE Returned(TRUE, NoError, save /\ put_ok)

\* symbol_search (save=False): the same steps with its own messages
SymbolSearch(raised, resp) ==
    IF raised THEN Returned(FALSE, <<"Network error during symbol search.", 0>>, FALSE)
    ELSE IF ~IsSuccess(resp.status_code)
        THEN Returned(FALSE, <<"HTTP", resp.status_code>>, FALSE)
    ELSE IF resp.content_type # "application/json"
        THEN Returned(FALSE, <<"Unexpected response format.", 0>>, FALSE)
    ELSE IF resp.body = "invalid"
        THEN Returned(FALSE, <<"Invalid JSON from Alpha Vantage API.", 0>>, FALSE)
    ELSE IF resp.body = "null"
        THEN [ok |-> FALSE, error |-> NoError, exception |-> "TypeError", stored |-> FALSE]
    ELSE IF resp.body \in {"note", "note+error"}
        THEN Returned(FALSE, <<"data[Note]", 0>>, FALSE)
    ELSE IF resp.body = "error"
        THEN Returned(FALSE, <<"data[Error Message]", 0>>, FALSE)
    ELSE Returned(TRUE, NoError, FALSE)

\* _fetch_monthly_adjusted: "Error Message" is looked up before "Note"
FetchMonthlyAdjusted(raised, resp) ==
    IF raised THEN Returned(FALSE, <<"Failed to fetch monthly adjusted data.", 0>>, FALSE)
    ELSE IF ~IsSuccess(resp.status_code)
        THEN Returned(FALSE, <<"HTTP", resp.status_code>>, FALSE)
    ELSE IF resp.content_type # "application/json"
        THEN Returned(FALSE, <<"Unexpected response format.", 0>>, FALSE)
    ELSE IF resp.body = "invalid"
        THEN Returned(FALSE, <<"Invalid JSON from Alpha Vantage API.", 0>>, FALSE)
    ELSE IF resp.body = "null"
        THEN [ok |-> FALSE, error |-> NoError, exception |-> "TypeError", stored |-> FALSE]
    ELSE IF resp.body \in {"error", "note+error"}
        THEN Returned(FALSE, <<"data[Error Message]", 0>>, FALSE)
    ELSE IF resp.body = "note"
        THEN Returned(FALSE, <<"data[Note]", 0>>, FALSE)
    ELSE Returned(TRUE, NoError, FALSE)

GatewayOps == {"get_symbol_monthly_data", "symbol_search", "_fetch_monthly_adjusted"}

\* the rest of the gateway operation (get_symbol_monthly_data with save=True,
\* as the worker calls it)
GatewayFinish ==
    /\ rpc \in {"returned", "raised"}
    /\ \E put_ok \in BOOLEAN :
        result' = CASE op = "get_symbol_monthly_data" ->
                          GetSymbolMonthlyData(rpc = "raised", response, TRUE, put_ok)
                    [] op = "symbol_search" -> SymbolSearch(rpc = "raised", response)
                    [] op = "_fetch_monthly_adjusted" ->
                          FetchMonthlyAdjusted(rpc = "raised", response)
    /\ rpc' = "done"
    /\ UNCHANGED <<attempt, response, last_exception, events, op>>

RetryStart ==
    /\ rpc = "idle"
    /\ attempt = 0
    /\ response = NoResponse
    /\ last_exception = FALSE
    /\ events = <<>>
    /\ result = NoResult
    /\ op \in GatewayOps

\* no gateway call is part of the run
RetryOff == RetryStart /\ op = "get_symbol_monthly_data"

----------------------------------------------------------------------------
(* planner/handler.py                                                      *)

\* _is_valid_year_month (values are always str here)
_is_valid_year_month(value) == StrptimeYearMonthOK(value)

\* _prev_month
_prev_monthMut(year, month) == <<year, month - 1>>
_prev_month(year, month) == IF month = 1 THEN <<year - 1, 12>> ELSE <<year, month - 1>>

\* range(0, stop, step) for step # 0, as the sequence of its values
RangeFrom0(stop, step) ==
    IF step < 0 \/ stop <= 0 THEN <<>>
    ELSE [k \in 1..((stop + step - 1) \div step) |-> (k - 1) * step]

\* chunk(lst, n) for n # 0: lst[i:i+n] for i in range(0, len(lst), n)
chunkMut(lst, n) ==
    LET r == RangeFrom0(Len(lst), n) IN [k \in 1..Len(r) |-> Slice(lst, r[k], r[k] + n - 1)]
chunk(lst, n) ==
    LET r == RangeFrom0(Len(lst), n) IN [k \in 1..Len(r) |-> Slice(lst, r[k], r[k] + n)]

\* glue_year_month_start = f"{end_year - 1}-01" with end_year = int(ingest_end[:4])
GlueYearMonthStartMut(ingest_end) ==
    FmtD(ParseInt(Slice(ingest_end, 0, 4))) \o <<Ord.dash>> \o Fmt02(1)
GlueYearMonthStart(ingest_end) ==
    FmtD(ParseInt(Slice(ingest_end, 0, 4)) - 1) \o <<Ord.dash>> \o Fmt02(1)

NoPlan == [batches |-> <<>>, total_symbols |-> 0,
           glue_year_month_start |-> <<>>, glue_year_month_end |-> <<>>,
           gold_year_start |-> <<>>, gold_year_end |-> <<>>,
           ingest_year_month_start |-> <<>>, ingest_year_month_end |-> <<>>,
           planned_at_utc |-> [year |-> 0, month |-> 0, day |-> 0, hour |-> 0]]

\* lines 54-75: the ingest range, explicit or default, and its validation
PlannerResolveRange ==
    /\ ppc = "start"
    /\ LET s0 == Strip(event.year_month_start)
           e0 == Strip(event.year_month_end)
           useDefault == s0 = <<>> \/ e0 = <<>>
           prev == _prev_month(now.year, now.month)
           s == IF useDefault THEN FormatYearMonth(prev[1], prev[2]) ELSE s0
           e == IF useDefault THEN FormatYearMonth(now.year, now.month) ELSE e0
       IN  /\ year_month_start' = s
           /\ year_month_end' = e
           /\ IF ~(_is_valid_year_month(s) /\ _is_valid_year_month(e))
              THEN ppc' = "error" /\ perror' = "InvalidFormat"
              ELSE IF StrLess(e, s)
              THEN ppc' = "error" /\ perror' = "InvalidOrder"
              ELSE ppc' = "resolved" /\ perror' = "none"
    /\ UNCHANGED <<event, now, csv_symbols, glue_year_month_start, glue_year_month_end,
                   symbols, plan>>

\* lines 77-92: the Glue (coverage) range and its two checks
PlannerCoverage ==
    /\ ppc = "resolved"
    /\ LET gs == GlueYearMonthStart(year_month_end)
           ge == year_month_end
       IN  /\ glue_year_month_start' = gs
           /\ glue_year_month_end' = ge
           /\ IF Slice(gs, 5, 7) # Fmt02(1)
              THEN ppc' = "error" /\ perror' = "GlueStartNotJanuary"
              ELSE IF StrGreater(gs, year_month_start) \/ StrLess(ge, year_month_end)
              THEN ppc' = "error" /\ perror' = "GlueRangeMustCoverIngest"
              ELSE ppc' = "covered" /\ perror' = "none"
    /\ UNCHANGED <<event, now, csv_symbols, year_month_start, year_month_end, symbols, plan>>

\* lines 94-100: read the universe table, keep the stripped symbol column
PlannerReadSymbols ==
    /\ ppc = "covered"
    /\ symbols' = [i \in 1..Len(csv_symbols) |-> Strip(csv_symbols[i])]
    /\ ppc' = "read"
    /\ UNCHANGED <<event, now, csv_symbols, perror, year_month_start, year_month_end,
                   glue_year_month_start, glue_year_month_end, plan>>

\* lines 104-112: the descriptor of one batch; the worker uses the ingest range
BatchDescriptorMut(batch_id, sym_batch) ==
    [batch_id |-> batch_id,
     symbols_subset |-> sym_batch,
     symbols_s3_uri |-> event.symbols_s3_uri,
     year_month_start |-> glue_year_month_start,
     year_month_end |-> glue_year_month_end]
BatchDescriptor(batch_id, sym_batch) ==
    [batch_id |-> batch_id,
     symbols_subset |-> sym_batch,
     symbols_s3_uri |-> event.symbols_s3_uri,
     year_month_start |-> year_month_start,
     year_month_end |-> year_month_end]

\* lines 102-129: one descriptor per chunk, then the returned plan
PlannerBatches ==
    /\ ppc = "read"
    /\ IF event.batch_size = 0
       THEN \* range() arg 3 must not be zero
            ppc' = "error" /\ perror' = "RangeStepZero" /\ plan' = plan
       ELSE LET chunks == chunk(symbols, event.batch_size)
                batches == [k \in 1..Len(chunks) |-> BatchDescriptor(k - 1, chunks[k])]
            IN  /\ plan' = [batches |-> batches,
                            total_symbols |-> Len(symbols),
                            glue_year_month_start |-> glue_year_month_start,
                            glue_year_month_end |-> glue_year_month_end,
                            gold_year_start |-> Slice(glue_year_month_start, 0, 4),
                            gold_year_end |-> Slice(glue_year_month_end, 0, 4),
                            ingest_year_month_start |-> year_month_start,
                            ingest_year_month_end |-> year_month_end,
                            planned_at_utc |-> now]
                /\ ppc' = "done"
                /\ perror' = "none"
    /\ UNCHANGED <<event, now, csv_symbols, year_month_start, year_month_end,
                   glue_year_month_start, glue_year_month_end, symbols>>

(* The planner's inputs *)

YearSpan == 2
Years == 2019..(2019 + YearSpan)
MaxSymbols == 3
MaxBatchSize == 3
DEFAULT_BATCH_SIZE == 50

\* trigger times, already in UTC: first and last days and hours of a month
Times == [year : Years, month : 1..12, day : {1, 28}, hour : {0, 23}]

EmptyStr == <<>>
Padded(s) == <<Ord.space>> \o s \o <<Ord.space>>
\* "YYYY-M": a one-digit month
ShortYearMonth(year, month) == Fmt04(year) \o <<Ord.dash, Ord.zero + month>>

ExplicitMonths == {1, 2, 12}

MalformedStrings ==
    { Fmt04(2020) \o <<Ord.dash>> \o Fmt02(13),    \* "2020-13"
      Fmt04(2020) \o <<Ord.dash>> \o Fmt02(0),     \* "2020-00"
      Fmt04(2020) \o <<Ord.slash>> \o Fmt02(1),    \* "2020/01"
      Fmt02(20) \o <<Ord.dash>> \o Fmt02(1),       \* "20-01"
      FormatYearMonth(0, 12),                      \* "0000-12"
      <<Ord.n, Ord.a, Ord.n>> }                    \* "nan"

ExplicitBounds ==
    {FormatYearMonth(y, m) : y \in Years, m \in ExplicitMonths}
    \cup {ShortYearMonth(y, m) : y \in Years, m \in {k \in ExplicitMonths : k <= 9}}
    \cup {Padded(FormatYearMonth(2020, 2))}
    \cup MalformedStrings

\* a bound that is absent, None, empty or blank
AbsentBounds == {EmptyStr, <<Ord.space>>}

SymbolCells == {<<Ord.A>>, <<Ord.B>>, <<Ord.space, Ord.A>>}

Universes == UNION {[1..k -> SymbolCells] : k \in 0..MaxSymbols}

Event(batch_size, s, e) ==
    [batch_size |-> batch_size, year_month_start |-> s, year_month_end |-> e,
     symbols_s3_uri |-> "s3://bucket/symbols.csv"]

PlannerIdle(pc) ==
    /\ ppc = pc
    /\ perror = "none"
    /\ year_month_start = EmptyStr
    /\ year_month_end = EmptyStr
    /\ glue_year_month_start = EmptyStr
    /\ glue_year_month_end = EmptyStr
    /\ symbols = <<>>
    /\ plan = NoPlan

\* the planner is not part of the run
PlannerOff ==
    /\ event = Event(DEFAULT_BATCH_SIZE, EmptyStr, EmptyStr)
    /\ now = [year |-> 2020, month |-> 1, day |-> 1, hour |-> 0]
    /\ csv_symbols = <<>>
    /\ PlannerIdle("off")

\* Either the range inputs vary (every trigger time with a missing bound, every
\* pair of explicit bounds) over two universes, or the batch inputs vary
\* (every batch size, every universe) over two ranges.
PlannerStart ==
    /\ PlannerIdle("start")
    /\ \/ /\ now \in Times
          /\ \E s, e \in ExplicitBounds \cup AbsentBounds :
                /\ (s \in AbsentBounds \/ e \in AbsentBounds)
                /\ event = Event(DEFAULT_BATCH_SIZE, s, e)
          /\ csv_symbols \in {<<>>, << <<Ord.A>>, <<Ord.B>> >>}
       \/ /\ now = [year |-> 2020, month |-> 1, day |-> 28, hour |-> 23]
          /\ \E s, e \in ExplicitBounds : event = Event(DEFAULT_BATCH_SIZE, s, e)
          /\ csv_symbols \in {<<>>, << <<Ord.A>>, <<Ord.B>> >>}
       \/ /\ now = [year |-> 2020, month |-> 1, day |-> 28, hour |-> 23]
          /\ \E b \in -1..MaxBatchSize, r \in {<<EmptyStr, EmptyStr>>,
                    <<FormatYearMonth(2020, 1), FormatYearMonth(2020, 2)>>} :
                event = Event(b, r[1], r[2])
          /\ csv_symbols \in Universes
----------------------------------------------------------------------------
(* worker/ingestion_alpha_vantage.py                                       *)

\* is_valid_year_month (values are always str here)
is_valid_year_month(value) == StrptimeYearMonthOK(Strip(value))

\* s.split("-") of a string with one dash, each part through int()
DashAt(s) == CHOOSE i \in 1..Len(s) : s[i] = Ord.dash /\ \A j \in 1..(i - 1) : s[j] # Ord.dash
SplitInts(s) ==
    << ParseInt(SubSeq(s, 1, DashAt(s) - 1)), ParseInt(SubSeq(s, DashAt(s) + 1, Len(s))) >>

NoGen == [year |-> 0, month |-> 0, end_year |-> 0, end_month |-> 0]

\* month_range(start, end): the generator before its first next()
month_range(start_ym, end_ym) ==
    [year |-> SplitInts(start_ym)[1], month |-> SplitInts(start_ym)[2],
     end_year |-> SplitInts(end_ym)[1], end_month |-> SplitInts(end_ym)[2]]

\* the while condition: the generator yields once more
GenHasNextMut(g) == g.year <= g.end_year /\ g.month <= g.end_month
GenHasNext(g) == g.year < g.end_year \/ (g.year = g.end_year /\ g.month <= g.end_month)

\* what it yields, and its state when resumed
GenYield(g) == FormatYearMonth(g.year, g.month)
GenAdvance(g) ==
    IF g.month + 1 > 12 THEN [g EXCEPT !.month = 1, !.year = g.year + 1]
    ELSE [g EXCEPT !.month = g.month + 1]

\* the skip tests of one row: invalid start_date, or start_date > max_end
SkipsSymbolMut(first_year_month, max_end) ==
    ~is_valid_year_month(first_year_month)
SkipsSymbol(first_year_month, max_end) ==
    \/ ~is_valid_year_month(first_year_month)
    \/ StrGreater(first_year_month, max_end)

\* what get_symbol_monthly_data(symbol, month, save=True) can hand back
GatewayResults ==
    { GetSymbolMonthlyData(o.kind = "exc", o, TRUE, put_ok) :
        o \in Outcomes, put_ok \in BOOLEAN }

\* what the worker's loop can tell apart of a result: its "ok", whether the
\* call raised, and (for the bucket) whether the object was written
ResultsSeen ==
    { [ok |-> r.ok, exception |-> r.exception, stored |-> r.stored] : r \in GatewayResults }

IsFault(res) == ~(res.ok /\ res.stored)

NoStats == [ok |-> FALSE, total_symbols |-> 0, processed_symbols |-> 0,
            skipped_symbols |-> 0, total_requests |-> 0, success_requests |-> 0,
            error_requests |-> 0, unresolved_error_requests |-> 0,
            symbols_with_errors |-> {}]

NoSt == [total_symbols |-> 0, skipped_symbols |-> 0, total_requests |-> 0,
         success_requests |-> 0, error_requests |-> 0,
         symbols_with_errors |-> {}, failed_pairs |-> {}]

\* lines 66-76: the range checks
WorkerValidate ==
    /\ wpc = "start"
    /\ IF ~is_valid_year_month(winput.start_year_month)
       THEN wpc' = "error" /\ werror' = "start_year_month is invalid"
       ELSE IF ~is_valid_year_month(winput.end_year_month)
       THEN wpc' = "error" /\ werror' = "end_year_month is invalid"
       ELSE IF StrLess(winput.end_year_month, winput.start_year_month)
       THEN wpc' = "error" /\ werror' = "end_year_month is earlier than start_year_month"
       ELSE wpc' = "validated" /\ werror' = "none"
    /\ UNCHANGED <<winput, table, utc_today, df, max_end_year_month, idx, gen, st, stats,
                   store, requests, skipped_rows, faults, timeline>>

\* df[df["symbol"].isin(symbols_subset)]
SubsetFilter(rows, subset) ==
    LET SymbolIn(r) == \E k \in 1..Len(subset) : subset[k] = r.symbol
    IN  SelectSeq(rows, SymbolIn)

\* df.head(limit) for limit >= 0
Head_(rows, limit) == SubSeq(rows, 1, IF limit < Len(rows) THEN limit ELSE Len(rows))

\* lines 87-117: load the table, filter, clamp the end, reset the statistics
WorkerLoad ==
    /\ wpc = "validated"
    /\ IF ~table.has_columns
       THEN /\ wpc' = "error"
            /\ werror' = "Input CSV must contain 'symbol' and 'start_date' columns"
            /\ UNCHANGED <<df, max_end_year_month, idx, st>>
       ELSE LET d1 == IF winput.symbols_subset.given
                      THEN SubsetFilter(table.rows, winput.symbols_subset.list)
                      ELSE table.rows
                d2 == IF winput.limit.given THEN Head_(d1, winput.limit.n) ELSE d1
                today_year_month == FormatYearMonth(utc_today.year, utc_today.month)
            IN  /\ df' = d2
                /\ max_end_year_month' = StrMin(winput.end_year_month, today_year_month)
                /\ st' = [NoSt EXCEPT !.total_symbols = Len(d2)]
                /\ idx' = 1
                /\ wpc' = "symbols"
                /\ werror' = "none"
    /\ UNCHANGED <<winput, table, utc_today, gen, stats, store, requests, skipped_rows, faults, timeline>>

\* lines 120-138: the next row: skipped, or its month_range started
WorkerNextSymbol ==
    /\ wpc = "symbols"
    /\ idx <= Len(df)
    /\ LET first_year_month == Strip(df[idx].start_date) IN
       IF SkipsSymbol(first_year_month, max_end_year_month)
       THEN /\ st' = [st EXCEPT !.skipped_symbols = @ + 1]
            /\ skipped_rows' = skipped_rows \cup {idx}
            /\ idx' = idx + 1
            /\ UNCHANGED <<wpc, gen>>
       ELSE /\ gen' = month_range(StrMax(winput.start_year_month, first_year_month),
                                  max_end_year_month)
            /\ wpc' = "months"
            /\ UNCHANGED <<st, skipped_rows, idx>>
    /\ UNCHANGED <<winput, table, utc_today, werror, df, max_end_year_month, stats,
                   store, requests, faults, timeline>>

\* lines 147-153: the accounting of a result that is not ok
AccountErrMut(s, symbol, month) ==
    [s EXCEPT !.total_requests = @ + 1,
              !.error_requests = @ + 1,
              !.failed_pairs = @ \cup {<<symbol, month>>}]
AccountErr(s, symbol, month) ==
    [s EXCEPT !.total_requests = @ + 1,
              !.error_requests = @ + 1,
              !.symbols_with_errors = @ \cup {symbol},
              !.failed_pairs = @ \cup {<<symbol, month>>}]

\* lines 155-159: the accounting of an ok result
AccountOkMut(s, symbol, month) ==
    [s EXCEPT !.total_requests = @ + 1,
              !.success_requests = @ + 1]
AccountOk(s, symbol, month) ==
    [s EXCEPT !.total_requests = @ + 1,
              !.success_requests = @ + 1,
              !.failed_pairs = @ \ {<<symbol, month>>}]

\* lines 152-153: sleep, then `continue`: the generator is resumed
ContinueAfterErrMut(g) == [g EXCEPT !.year = g.end_year + 1]
ContinueAfterErr(g) == GenAdvance(g)

\* time.sleep durations, in tenths of a second
RATE_LIMIT_SLEEP_SECONDS == 1
JITTER_SECONDS == 9

\* what the timeline records: an HTTP attempt, the sleep before a retry, the
\* worker's sleep after a gateway call; call is the number of the gateway call,
\* att the value of the retry loop's variable
AttemptMark(call, att) == [ev |-> "attempt", call |-> call, att |-> att, slept |-> 0]
BackoffMark(call, slept) == [ev |-> "backoff", call |-> call, att |-> 0, slept |-> slept]
PaceMark(call) ==
    [ev |-> "pace", call |-> call, att |-> 0, slept |-> RATE_LIMIT_SLEEP_SECONDS]

\* the part of a timeline from its last HTTP attempt on (all of it if none)
SinceLastAttempt(tl) ==
    LET at == {k \in DOMAIN tl : tl[k].ev = "attempt"} IN
    IF at = {} THEN tl
    ELSE SubSeq(tl, CHOOSE k \in at : \A j \in at : j <= k, Len(tl))

\* line 152: sleep(RATE_LIMIT_SLEEP_SECONDS) on the branch of a result not ok
SleepAfterErrMut(call) == <<>>
SleepAfterErr(call) == <<PaceMark(call)>>

\* line 159: sleep(RATE_LIMIT_SLEEP_SECONDS) on the ok branch
SleepAfterOk(call) == <<PaceMark(call)>>

\* lines 142-159: the accounting of what get_symbol_monthly_data handed back
\* (or raised) for the generator's next month
AccountResult(res) ==
    LET symbol == df[idx].symbol
        month == GenYield(gen)
        call == Len(requests) + 1
    IN  /\ requests' = Append(requests, [row |-> idx, symbol |-> symbol,
                                         month |-> month, ok |-> res.ok])
        /\ store' = IF res.stored THEN store \cup {<<symbol, month>>} ELSE store
        /\ IF res.exception # "none"
           THEN /\ st' = [st EXCEPT !.total_requests = @ + 1]
                /\ wpc' = "error"
                /\ werror' = res.exception
                /\ gen' = gen
                /\ timeline' = timeline
           ELSE /\ st' = IF ~res.ok THEN AccountErr(st, symbol, month)
                         ELSE AccountOk(st, symbol, month)
                /\ gen' = IF ~res.ok THEN ContinueAfterErr(gen) ELSE GenAdvance(gen)
                /\ timeline' = timeline \o (IF ~res.ok THEN SleepAfterErr(call)
                                            ELSE SleepAfterOk(call))
                /\ UNCHANGED <<wpc, werror>>
        /\ idx' = idx

\* lines 140-159: one step of the month loop: the fetch of the next month and
\* its accounting, or the end of the symbol's months
WorkerFetch ==
    /\ wpc = "months"
    /\ IF GenHasNext(gen)
       THEN \E res \in ResultsSeen :
                /\ IsFault(res) => faults < MaxFaults
                /\ faults' = IF IsFault(res) THEN faults + 1 ELSE faults
                /\ AccountResult(res)
       ELSE /\ idx' = idx + 1
            /\ wpc' = "symbols"
            /\ gen' = NoGen
            /\ UNCHANGED <<werror, st, store, requests, faults, timeline>>
    /\ UNCHANGED <<winput, table, utc_today, df, max_end_year_month, stats, skipped_rows>>

\* lines 161-201: the summary
WorkerFinish ==
    /\ wpc = "symbols"
    /\ idx > Len(df)
    /\ stats' = [ok |-> TRUE,
                 total_symbols |-> st.total_symbols,
                 processed_symbols |-> st.total_symbols - st.skipped_symbols,
                 skipped_symbols |-> st.skipped_symbols,
                 total_requests |-> st.total_requests,
                 success_requests |-> st.success_requests,
                 error_requests |-> st.error_requests,
                 unresolved_error_requests |-> Cardinality(st.failed_pairs),
                 symbols_with_errors |-> st.symbols_with_errors]
    /\ wpc' = "done"
    /\ UNCHANGED <<winput, table, utc_today, werror, df, max_end_year_month, idx, gen, st,
                   store, requests, skipped_rows, faults, timeline>>

(* The worker's inputs *)

Row(symbol, start_date) == [symbol |-> symbol, start_date |-> start_date]
NoSubset == [given |-> FALSE, list |-> <<>>]
Subset(list) == [given |-> TRUE, list |-> list]
NoLimit == [given |-> FALSE, n |-> 0]
Limit(n) == [given |-> TRUE, n |-> n]

\* the bounds a worker event may carry: canonical months on both sides of two
\* year ends, a one-digit month, a malformed value
WorkerBounds ==
    { FormatYearMonth(2020, 1), FormatYearMonth(2020, 2), FormatYearMonth(2020, 3),
      FormatYearMonth(2020, 12), FormatYearMonth(2021, 1), ShortYearMonth(2020, 1),
      <<Ord.n, Ord.a, Ord.n>> }

\* the calendar months a range start..end spans, for two parseable bounds
SpanMonths(s, e) ==
    (12 * SplitInts(e)[1] + SplitInts(e)[2]) - (12 * SplitInts(s)[1] + SplitInts(s)[2]) + 1

WorkerRanges ==
    { r \in WorkerBounds \X WorkerBounds :
        (StrptimeYearMonthOK(r[1]) /\ StrptimeYearMonthOK(r[2]))
            => SpanMonths(r[1], r[2]) <= MaxSpan }

\* the rows a universe table may hold: start dates before, at the start of,
\* inside and after the ranges, with a one-digit month, and not a date (an
\* empty cell reads "nan")
WorkerRows ==
    { Row(<<Ord.A>>, FormatYearMonth(2020, 1)),
      Row(<<Ord.B>>, FormatYearMonth(2019, 6)),
      Row(<<Ord.B>>, FormatYearMonth(2020, 2)),
      Row(<<Ord.B>>, ShortYearMonth(2020, 9)),
      Row(<<Ord.B>>, <<Ord.n, Ord.a, Ord.n>>),
      Row(<<Ord.space, Ord.A>>, Padded(FormatYearMonth(2020, 1))) }

WorkerTables == UNION {[1..k -> WorkerRows] : k \in 0..MaxRows}

WorkerToday == { [year |-> 2020, month |-> 1], [year |-> 2021, month |-> 1] }

WorkerIdle(pc) ==
    /\ wpc = pc
    /\ werror = "none"
    /\ df = <<>>
    /\ max_end_year_month = EmptyStr
    /\ idx = 0
    /\ gen = NoGen
    /\ st = NoSt
    /\ stats = NoStats
    /\ store = {}
    /\ requests = <<>>
    /\ skipped_rows = {}
    /\ faults = 0
    /\ timeline = <<>>

\* the worker is not part of the run
WorkerOff ==
    /\ winput = [start_year_month |-> EmptyStr, end_year_month |-> EmptyStr,
                 symbols_subset |-> NoSubset, limit |-> NoLimit]
    /\ table = [has_columns |-> TRUE, rows |-> <<>>]
    /\ utc_today = [year |-> 2020, month |-> 1]
    /\ WorkerIdle("off")

\* the rows of the tables tried together with a subset or a limit
FilteredRows ==
    { Row(<<Ord.A>>, FormatYearMonth(2020, 1)),
      Row(<<Ord.B>>, FormatYearMonth(2019, 6)),
      Row(<<Ord.space, Ord.A>>, Padded(FormatYearMonth(2020, 1))) }

FilteredTables == UNION {[1..k -> FilteredRows] : k \in 0..MaxRows}

\* Either every table is read whole, or a table of the smaller set is read
\* through a subset or a limit.
WorkerStart ==
    /\ WorkerIdle("start")
    /\ utc_today \in WorkerToday
    /\ \E r \in WorkerRanges, sl \in { <<NoSubset, NoLimit>>,
                                       <<Subset(<< <<Ord.A>> >>), NoLimit>>,
                                       <<NoSubset, Limit(1)>> } :
          /\ winput = [start_year_month |-> r[1], end_year_month |-> r[2],
                       symbols_subset |-> sl[1], limit |-> sl[2]]
          /\ \/ table \in [has_columns : {TRUE},
                            rows : IF sl = <<NoSubset, NoLimit>> THEN WorkerTables
                                   ELSE FilteredTables]
             \/ table = [has_columns |-> FALSE, rows |-> <<>>]

----------------------------------------------------------------------------
(* The workers of one plan: worker/handler.py invoked once per batch        *)
(* descriptor, concurrently; s3_client.py                                   *)

S3_BRONZE_PREFIX == "bronze"

\* make_s3_key: the path segments of the key
make_s3_keyMut(symbol, month, prefix) ==
    << prefix, "alpha_vantage", "intraday_1min", <<"symbol=", symbol>>,
       <<"month=", month>>, "raw.json", Cardinality(fetched) >>
make_s3_key(symbol, month, prefix) ==
    << prefix, "alpha_vantage", "intraday_1min", <<"symbol=", symbol>>,
       <<"month=", month>>, "raw.json" >>

\* json.dumps(data, ensure_ascii=False).encode("utf-8"): bytes of the data
JsonBytes(data) == <<"utf-8", data>>

\* what the upstream holds for (symbol, month)
Payload(symbol, month) == <<"TIME_SERIES_INTRADAY", symbol, month>>

\* client.put_object(Bucket, Key, Body): the object under Key is replaced
PutObject(objects, key, body) ==
    {o \in objects : o.key # key} \cup {[key |-> key, body |-> body]}

\* the two invocations the orchestrator has in flight
Invocations == {1, 2}

NoInvocation == [pc |-> "idle", batch |-> 0, df |-> <<>>, max_end_year_month |-> EmptyStr,
                 idx |-> 0, gen |-> NoGen]

\* worker/handler.py with one batch descriptor of the plan, up to the loop
\* (ingestion lines 66-117: validation, load, subset filter, clamp)
FleetInvoke(w) ==
    /\ ppc = "done"
    /\ invocations[w].pc = "idle"
    /\ \E b \in DOMAIN plan.batches :
        LET d == plan.batches[b]
            today_year_month == FormatYearMonth(utc_today.year, utc_today.month)
        IN  invocations' = [invocations EXCEPT ![w] =
              IF \/ ~is_valid_year_month(d.year_month_start)
                 \/ ~is_valid_year_month(d.year_month_end)
                 \/ StrLess(d.year_month_end, d.year_month_start)
              THEN [NoInvocation EXCEPT !.pc = "error", !.batch = b]
              ELSE [pc |-> "symbols", batch |-> b,
                    df |-> SubsetFilter(universe, d.symbols_subset),
                    max_end_year_month |-> StrMin(d.year_month_end, today_year_month),
                    idx |-> 1, gen |-> NoGen]]
    /\ UNCHANGED <<universe, bucket, fetched, ffaults>>

\* ingestion lines 120-138 for invocation w; after the last row the run returns
FleetNextSymbol(w) ==
    LET v == invocations[w] IN
    /\ v.pc = "symbols"
    /\ IF v.idx > Len(v.df)
       THEN invocations' = [invocations EXCEPT ![w].pc = "done"]
       ELSE LET first_year_month == Strip(v.df[v.idx].start_date) IN
            IF SkipsSymbol(first_year_month, v.max_end_year_month)
            THEN invocations' = [invocations EXCEPT ![w].idx = v.idx + 1]
            ELSE invocations' = [invocations EXCEPT
                    ![w].gen = month_range(
                        StrMax(plan.batches[v.batch].year_month_start, first_year_month),
                        v.max_end_year_month),
                    ![w].pc = "months"]
    /\ UNCHANGED <<universe, bucket, fetched, ffaults>>

\* ingestion lines 140-159 for invocation w: one fetch, and the write of
\* get_symbol_monthly_data(save=True) when the result is ok
FleetFetch(w) ==
    LET v == invocations[w] IN
    /\ v.pc = "months"
    /\ IF GenHasNext(v.gen)
       THEN LET symbol == v.df[v.idx].symbol
                month == GenYield(v.gen)
            IN  \E res \in ResultsSeen :
                /\ IsFault(res) => ffaults < MaxFaults
                /\ ffaults' = IF IsFault(res) THEN ffaults + 1 ELSE ffaults
                /\ fetched' = fetched \cup {[invocation |-> w, symbol |-> symbol,
                                            month |-> month, stored |-> res.stored]}
                /\ bucket' = IF res.stored
                             THEN PutObject(bucket,
                                            make_s3_key(symbol, month, S3_BRONZE_PREFIX),
                                            JsonBytes(Payload(symbol, month)))
                             ELSE bucket
                /\ invocations' = [invocations EXCEPT
                        ![w].pc = IF res.exception # "none" THEN "error" ELSE v.pc,
                        ![w].gen = IF res.exception # "none" THEN v.gen
                                   ELSE IF ~res.ok THEN ContinueAfterErr(v.gen)
                                   ELSE GenAdvance(v.gen)]
       ELSE /\ invocations' = [invocations EXCEPT ![w].idx = v.idx + 1,
                                                  ![w].pc = "symbols",
                                                  ![w].gen = NoGen]
            /\ UNCHANGED <<bucket, fetched, ffaults>>
    /\ UNCHANGED universe

\* the batch sizes of the plans whose workers are run
FleetBatchSizes == {1, 2}

FleetIdle ==
    /\ invocations = [w \in Invocations |-> NoInvocation]
    /\ bucket = {}
    /\ fetched = {}
    /\ ffaults = 0

\* no plan's workers are part of the run
FleetOff == FleetIdle /\ universe = <<>>

\* a plan is made for a universe and a range, then its workers run
FleetStart ==
    /\ FleetIdle
    /\ universe \in FilteredTables
    /\ csv_symbols = [i \in 1..Len(universe) |-> universe[i].symbol]
    /\ \E b \in FleetBatchSizes :
          event = Event(b, FormatYearMonth(2020, 1), FormatYearMonth(2020, 2))
    /\ now = [year |-> 2021, month |-> 1, day |-> 1, hour |-> 0]
    /\ PlannerIdle("start")
    /\ winput = [start_year_month |-> EmptyStr, end_year_month |-> EmptyStr,
                 symbols_subset |-> NoSubset, limit |-> NoLimit]
    /\ table = [has_columns |-> TRUE, rows |-> <<>>]
    /\ utc_today = [year |-> 2021, month |-> 1]
    /\ WorkerIdle("off")

----------------------------------------------------------------------------
(* One worker run with its gateway calls spelled out: the month loop calls  *)
(* get_symbol_monthly_data, which runs _request_with_retries                *)

\* alpha_vantage_client.py lines 72 and 91: the sleep before `continue`;
\* jitter is what random.uniform(0, JITTER_SECONDS) returned
BackoffSleep(jitter) == RATE_LIMIT_SLEEP_SECONDS + jitter

\* the two ends of random.uniform(0, JITTER_SECONDS)
Jitters == {0, JITTER_SECONDS}

\* the upstream answers tried in a whole run: a transport failure, a retriable
\* status, and a 200 with a payload, with JSON null, with a Note
PacedOutcomes ==
    { o \in Outcomes :
        \/ o = Transport
        \/ /\ o.status_code \in {200, 503}
           /\ o.content_type = "application/json"
           /\ o.body \in {"plain", "null", "note"} }

IsPayload(o) == o.kind = "resp" /\ IsSuccess(o.status_code) /\ o.body = "plain"

\* ingestion line 145: the call of get_symbol_monthly_data for the next month
PacedCall ==
    /\ wpc = "months"
    /\ GenHasNext(gen)
    /\ CallRequestWithRetries
    /\ UNCHANGED workerVars

\* one iteration of the retry loop inside that call; at most MaxFaults calls
\* of a run meet an attempt without a payload or a failed write
PacedAttempt ==
    /\ wpc = "months"
    /\ \E o \in PacedOutcomes, jitter \in Jitters :
        LET call == Len(requests) + 1 IN
        /\ ~IsPayload(o) => (attempt > 1 \/ faults < MaxFaults)
        /\ RequestAttemptOf(o)
        /\ faults' = IF ~IsPayload(o) /\ attempt = 1 THEN faults + 1 ELSE faults
        /\ timeline' = IF Len(events') = Len(events) + 2
                       THEN SinceLastAttempt(timeline) \o
                                <<AttemptMark(call, attempt),
                                  BackoffMark(call, BackoffSleep(jitter))>>
                       ELSE Append(SinceLastAttempt(timeline), AttemptMark(call, attempt))
    /\ UNCHANGED <<winput, table, utc_today, wpc, werror, df, max_end_year_month, idx,
                   gen, st, stats, store, requests, skipped_rows>>

\* get_symbol_monthly_data after the request
PacedGatewayFinish ==
    /\ wpc = "months"
    /\ GatewayFinish
    /\ faults' = IF result'.ok /\ ~result'.stored THEN faults + 1 ELSE faults
    /\ faults' <= MaxFaults
    /\ UNCHANGED <<winput, table, utc_today, wpc, werror, df, max_end_year_month, idx,
                   gen, st, stats, store, requests, skipped_rows, timeline>>

\* ingestion lines 145-159: the call has returned (or raised); its frame is gone
PacedAccount ==
    /\ wpc = "months"
    /\ rpc = "done"
    /\ AccountResult([ok |-> result.ok, exception |-> result.exception,
                      stored |-> result.stored])
    /\ rpc' = "idle"
    /\ attempt' = 0
    /\ response' = NoResponse
    /\ last_exception' = FALSE
    /\ events' = <<>>
    /\ result' = NoResult
    /\ UNCHANGED <<op, winput, table, utc_today, df, max_end_year_month, stats,
                   skipped_rows, faults>>

\* the generator is used up: the for loop over months ends
PacedEndOfMonths ==
    /\ rpc = "idle"
    /\ ~GenHasNext(gen)
    /\ WorkerFetch
    /\ UNCHANGED retryVars

\* the runs explored: a table read whole, a range inside or after today's month
PacedRanges ==
    { <<FormatYearMonth(2020, 1), FormatYearMonth(2020, 2)>>,
      <<FormatYearMonth(2020, 2), FormatYearMonth(2020, 3)>> }

PacedRows ==
    { Row(<<Ord.A>>, FormatYearMonth(2020, 1)),
      Row(<<Ord.B>>, FormatYearMonth(2020, 2)),
      Row(<<Ord.B>>, <<Ord.n, Ord.a, Ord.n>>) }

PacedTables == UNION {[1..k -> PacedRows] : k \in 0..MaxRows}

PacedStart ==
    /\ WorkerIdle("start")
    /\ utc_today \in WorkerToday
    /\ \E r \in PacedRanges :
          winput = [start_year_month |-> r[1], end_year_month |-> r[2],
                    symbols_subset |-> NoSubset, limit |-> NoLimit]
    /\ table \in [has_columns : {TRUE}, rows : PacedTables]

----------------------------------------------------------------------------
(* The specifications                                                      *)

InitRetry == RetryStart /\ PlannerOff /\ WorkerOff /\ FleetOff

NextRetry ==
    \/ CallRequestWithRetries /\ UNCHANGED <<plannerVars, workerVars, fleetVars>>
    \/ RequestAttempt /\ UNCHANGED <<plannerVars, workerVars, fleetVars>>
    \/ GatewayFinish /\ UNCHANGED <<plannerVars, workerVars, fleetVars>>

SpecRetry == InitRetry /\ [][NextRetry]_vars

InitPlanner == PlannerStart /\ RetryOff /\ WorkerOff /\ FleetOff

NextPlanner ==
    \/ PlannerResolveRange /\ UNCHANGED <<retryVars, workerVars, fleetVars>>
    \/ PlannerCoverage /\ UNCHANGED <<retryVars, workerVars, fleetVars>>
    \/ PlannerReadSymbols /\ UNCHANGED <<retryVars, workerVars, fleetVars>>
    \/ PlannerBatches /\ UNCHANGED <<retryVars, workerVars, fleetVars>>

SpecPlanner == InitPlanner /\ [][NextPlanner]_vars

InitWorker == WorkerStart /\ RetryOff /\ PlannerOff /\ FleetOff

NextWorker ==
    \/ WorkerValidate /\ UNCHANGED <<retryVars, plannerVars, fleetVars>>
    \/ WorkerLoad /\ UNCHANGED <<retryVars, plannerVars, fleetVars>>
    \/ WorkerNextSymbol /\ UNCHANGED <<retryVars, plannerVars, fleetVars>>
    \/ WorkerFetch /\ UNCHANGED <<retryVars, plannerVars, fleetVars>>
    \/ WorkerFinish /\ UNCHANGED <<retryVars, plannerVars, fleetVars>>

SpecWorker == InitWorker /\ [][NextWorker]_vars

InitFleet == FleetStart /\ RetryOff

NextFleet ==
    \/ PlannerResolveRange /\ UNCHANGED <<retryVars, workerVars, fleetVars>>
    \/ PlannerCoverage /\ UNCHANGED <<retryVars, workerVars, fleetVars>>
    \/ PlannerReadSymbols /\ UNCHANGED <<retryVars, workerVars, fleetVars>>
    \/ PlannerBatches /\ UNCHANGED <<retryVars, workerVars, fleetVars>>
    \/ \E w \in Invocations : FleetInvoke(w) /\ UNCHANGED <<retryVars, plannerVars, workerVars>>
    \/ \E w \in Invocations : FleetNextSymbol(w) /\ UNCHANGED <<retryVars, plannerVars, workerVars>>
    \/ \E w \in Invocations : FleetFetch(w) /\ UNCHANGED <<retryVars, plannerVars, workerVars>>

SpecFleet == InitFleet /\ [][NextFleet]_vars

InitPaced == PacedStart /\ RetryOff /\ PlannerOff /\ FleetOff

NextPaced ==
    \/ WorkerValidate /\ UNCHANGED <<retryVars, plannerVars, fleetVars>>
    \/ WorkerLoad /\ UNCHANGED <<retryVars, plannerVars, fleetVars>>
    \/ WorkerNextSymbol /\ UNCHANGED <<retryVars, plannerVars, fleetVars>>
    \/ PacedCall /\ UNCHANGED <<plannerVars, fleetVars>>
    \/ PacedAttempt /\ UNCHANGED <<plannerVars, fleetVars>>
    \/ PacedGatewayFinish /\ UNCHANGED <<plannerVars, fleetVars>>
    \/ PacedAccount /\ UNCHANGED <<plannerVars, fleetVars>>
    \/ PacedEndOfMonths /\ UNCHANGED <<plannerVars, fleetVars>>
    \/ WorkerFinish /\ UNCHANGED <<retryVars, plannerVars, fleetVars>>

SpecPaced == InitPaced /\ [][NextPaced]_vars

\* the for loop over the rows has a row left (the guard of WorkerNextSymbol)
RowPending == wpc = "symbols" /\ idx <= Len(df)

\* what WorkerNextSymbol does to the loop's position: the row's months are
\* started, or the row is skipped
RowLoopAdvances ==
    /\ RowPending
    /\ \/ wpc' = "months" /\ idx' = idx
       \/ wpc' = wpc /\ idx' = idx + 1

\* The run is sequential code: whatever statement is next is executed, and
\* every HTTP attempt returns or fails.  Fairness of the row step is stated
\* on its guard and on the loop's position, so that it is decided without
\* evaluating the row's strings.
SpecPacedFair ==
    /\ SpecPaced
    /\ WF_vars(~RowPending /\ NextPaced)
    /\ WF_<<wpc, idx>>(RowLoopAdvances)

----------------------------------------------------------------------------
(* Claims about _request_with_retries (checked under SpecRetry)            *)

IsAttemptEv(e) == e.ev = "attempt"

\* the HTTP attempts made so far, in order
AttemptsMade == SelectSeq(events, IsAttemptEv)

\* how many HTTP attempts events[1..p] holds
AttemptsUpTo(p) == Cardinality({q \in 1..p : events[q].ev = "attempt"})

IsRetriableResponse(o) ==
    o.kind = "resp" /\ o.status_code \in {429, 500, 502, 503, 504}

IsTerminalResponse(o) ==
    /\ o.kind = "resp"
    /\ \/ (o.status_code >= 200 /\ o.status_code <= 299)
       \/ o.status_code \notin {429, 500, 502, 503, 504}

\* C1: whatever the upstream answers, one call makes at most 4 HTTP attempts;
\* when all four return a status in {429, 500, 502, 503, 504}, the call has
\* ended by returning the fourth response as it is, with nothing after it.
C1_AtMostFourAttempts ==
    /\ Len(AttemptsMade) <= 4
    /\ ( /\ Len(AttemptsMade) >= 4
         /\ \A i \in 1..4 : IsRetriableResponse(AttemptsMade[i].out) )
       => /\ rpc \in {"returned", "done"}
          /\ response = AttemptsMade[4].out
          /\ events[Len(events)] = AttemptsMade[4]
          /\ (rpc = "done" /\ op = "get_symbol_monthly_data") =>
                result = Returned(FALSE, <<"Alpha Vantage API returned HTTP",
                                           AttemptsMade[4].out.status_code>>, FALSE)

C1_Witness ==
    /\ rpc = "returned"
    /\ Len(AttemptsMade) = 4
    /\ \A i \in 1..4 : AttemptsMade[i].out.status_code = 503
    /\ response.status_code = 503

\* C2: an attempt that returns 2xx, or a non-2xx status outside
\* {429, 500, 502, 503, 504}, is the last event of the call (no attempt and no
\* sleep after it) and its response is the call's result; the outcomes
\* 503, 503, 200 end with the 200 response after exactly 3 attempts.
C2_StopsAtFirstTerminal ==
    /\ \A p \in DOMAIN events :
          (events[p].ev = "attempt" /\ IsTerminalResponse(events[p].out))
          => /\ p = Len(events)
             /\ rpc \in {"returned", "done"}
             /\ response = events[p].out
    /\ ( /\ Len(AttemptsMade) >= 3
         /\ AttemptsMade[1].out.status_code = 503
         /\ AttemptsMade[2].out.status_code = 503
         /\ AttemptsMade[3].out.status_code = 200 )
       => /\ Len(AttemptsMade) = 3
          /\ response.status_code = 200
          /\ Len(events) = 5

C2_Witness ==
    /\ rpc = "returned"
    /\ Len(AttemptsMade) = 3
    /\ AttemptsMade[1].out.status_code = 503
    /\ AttemptsMade[2].out.status_code = 503
    /\ AttemptsMade[3].out.status_code = 200
    /\ response.status_code = 200

\* C3: the call raises exactly when its 4th attempt is made and fails with a
\* transport error; a transport error on attempts 1-3 is followed by one sleep
\* and then another attempt; transport errors and retriable statuses count
\* against the same 4 attempts; and when the call raised,
\* get_symbol_monthly_data returns ok = False and raises nothing.
C3_RaisesOnlyOnFinalTransportError ==
    LET n == Len(AttemptsMade)
        lastIsTransport == n > 0 /\ AttemptsMade[n].out.kind = "exc"
    IN  /\ rpc = "raised" =>
              /\ n = 4
              /\ lastIsTransport
              /\ events[Len(events)].ev = "attempt"
        /\ rpc = "returned" => ~lastIsTransport
        /\ (n >= 4 /\ AttemptsMade[4].out.kind = "exc") => rpc \in {"raised", "done"}
        /\ n >= 4 => rpc # "loop"
        /\ \A p \in DOMAIN events :
              ( /\ events[p].ev = "attempt"
                /\ events[p].out.kind = "exc"
                /\ AttemptsUpTo(p) <= 3 )
              => /\ Len(events) > p
                 /\ events[p + 1].ev = "sleep"
                 /\ IF Len(events) = p + 1 THEN rpc = "loop"
                    ELSE events[p + 2].ev = "attempt"
        /\ (rpc = "done" /\ op = "get_symbol_monthly_data") =>
              ( (n = 4 /\ lastIsTransport)
                <=> result = Returned(FALSE,
                        <<"Failed to fetch data from Alpha Vantage API.", 0>>, FALSE) )
        /\ (rpc = "done" /\ lastIsTransport) =>
              (result.ok = FALSE /\ result.exception = "none")

C3_Witness ==
    /\ rpc = "done"
    /\ Len(AttemptsMade) = 4
    /\ AttemptsMade[1].out.status_code = 503
    /\ AttemptsMade[2].out.kind = "exc"
    /\ AttemptsMade[3].out.status_code = 429
    /\ AttemptsMade[4].out.kind = "exc"
    /\ result.ok = FALSE
    /\ result.exception = "none"

----------------------------------------------------------------------------
(* Claims about the planner (checked under SpecPlanner)                    *)

\* the canonical form YYYY-MM of a calendar month: 4 digits (a year from 1
\* on), a dash, a 2-digit month 01..12
IsCanonicalYearMonth(s) ==
    /\ Len(s) = 7
    /\ \A i \in {1, 2, 3, 4, 6, 7} : s[i] >= 48 /\ s[i] <= 57
    /\ s[5] = 45
    /\ LET m == 10 * (s[6] - 48) + (s[7] - 48) IN m >= 1 /\ m <= 12
    /\ \E i \in 1..4 : s[i] # 48

\* the calendar month a string "<year>-<month>" names, counted in months
YearOf(s) == DigitsValue(SubSeq(s, 1, 4))
MonthOf(s) == DigitsValue(SubSeq(s, 6, Len(s)))
MonthIndex(s) == 12 * YearOf(s) + MonthOf(s) - 1

ExplicitRangeGiven ==
    Strip(event.year_month_start) # <<>> /\ Strip(event.year_month_end) # <<>>

PlannerAccepted == ppc \in {"resolved", "covered", "read", "done"}

RECURSIVE ConcatSubsets(_)
ConcatSubsets(batches) ==
    IF batches = <<>> THEN <<>>
    ELSE Head(batches).symbols_subset \o ConcatSubsets(Tail(batches))

\* C4: for a symbol list of length N and batch_size B >= 1 the plan has
\* ceil(N/B) batches with batch_id 0, 1, ... in order; every batch but the last
\* has exactly B symbols, none is empty, and the subsets concatenated in
\* batch_id order are the symbol list itself.
C4_ChunkPartition ==
    ( /\ ppc \in {"done", "error"}
      /\ perror \notin {"InvalidFormat", "InvalidOrder",
                        "GlueStartNotJanuary", "GlueRangeMustCoverIngest"}
      /\ event.batch_size >= 1 )
    => LET N == Len(symbols)
           B == event.batch_size
           bs == plan.batches
       IN  /\ ppc = "done"
           /\ Len(bs) = (N + B - 1) \div B
           /\ \A k \in 1..Len(bs) :
                 /\ bs[k].batch_id = k - 1
                 /\ Len(bs[k].symbols_subset) >= 1
                 /\ k < Len(bs) => Len(bs[k].symbols_subset) = B
           /\ ConcatSubsets(bs) = symbols
           /\ plan.total_symbols = N

C4_Witness ==
    /\ ppc = "done"
    /\ event.batch_size = 2
    /\ Len(symbols) = 3
    /\ Len(plan.batches) = 2
    /\ Len(plan.batches[2].symbols_subset) = 1

\* C5: without an explicit range (a bound missing or blank) the ingest range is
\* the month before the trigger's month up to the trigger's month, a function
\* of the trigger's (year, month) alone; January gives December of the year
\* before; and the range passes the validation.
C5_DefaultRange ==
    (ppc \notin {"off", "start"} /\ ~ExplicitRangeGiven)
    => LET mi == 12 * now.year + (now.month - 1) IN
       /\ year_month_end = FormatYearMonth(now.year, now.month)
       /\ year_month_start = FormatYearMonth((mi - 1) \div 12, ((mi - 1) % 12) + 1)
       /\ now.month = 1 => year_month_start = FormatYearMonth(now.year - 1, 12)
       /\ ~(ppc = "error" /\ perror \in {"InvalidFormat", "InvalidOrder"})
       /\ ppc = "done" =>
             /\ plan.ingest_year_month_start = year_month_start
             /\ plan.ingest_year_month_end = year_month_end

C5_Witness ==
    /\ ppc = "done"
    /\ ~ExplicitRangeGiven
    /\ now.month = 1 /\ now.day = 28 /\ now.hour = 23
    /\ plan.ingest_year_month_start = FormatYearMonth(now.year - 1, 12)
    /\ plan.ingest_year_month_end = FormatYearMonth(now.year, 1)

\* C6: explicit bounds the planner accepts are in the canonical form YYYY-MM
\* with start not later in the calendar than end; a bound not in that form is
\* rejected with the format error (also when the order is wrong), and a
\* canonical pair whose end precedes its start with the order error.
C6_AcceptedBoundsOrdered ==
    (ppc \notin {"off", "start"} /\ ExplicitRangeGiven)
    => LET s == Strip(event.year_month_start)
           e == Strip(event.year_month_end)
           canonical == IsCanonicalYearMonth(s) /\ IsCanonicalYearMonth(e)
       IN  /\ PlannerAccepted => (canonical /\ MonthIndex(s) <= MonthIndex(e))
           /\ ~canonical => (ppc = "error" /\ perror = "InvalidFormat")
           /\ (canonical /\ MonthIndex(e) < MonthIndex(s))
                 => (ppc = "error" /\ perror = "InvalidOrder")

\* C7: a returned plan has glue_year_month_start = January of the year before
\* the ingest end's year, not later in the calendar than the ingest start, and
\* glue_year_month_end equal to the ingest end.
C7_CoverageInvariants ==
    ppc = "done"
    => /\ YearOf(plan.glue_year_month_start) = YearOf(plan.ingest_year_month_end) - 1
       /\ Len(plan.glue_year_month_start) = 7
       /\ MonthOf(plan.glue_year_month_start) = 1
       /\ MonthIndex(plan.glue_year_month_start) <= MonthIndex(plan.ingest_year_month_start)
       /\ plan.glue_year_month_end = plan.ingest_year_month_end
       /\ plan.ingest_year_month_start = year_month_start
       /\ plan.ingest_year_month_end = year_month_end

C7_Witness ==
    /\ ppc = "done"
    /\ ExplicitRangeGiven
    /\ YearOf(plan.ingest_year_month_start) = YearOf(plan.ingest_year_month_end) - 1
    /\ MonthOf(plan.ingest_year_month_start) = 12
    /\ MonthIndex(plan.glue_year_month_start) < MonthIndex(plan.ingest_year_month_start)

\* C8: for every canonical explicit (start, end) with start <= end, backfills
\* that start before the year preceding end's year included, no check of the
\* planner trips: the coverage range contains the ingest range and the plan
\* is returned.
C8_CoverageNeverTrips ==
    LET s == Strip(event.year_month_start)
        e == Strip(event.year_month_end)
    IN  ( /\ ppc \notin {"off", "start"}
          /\ ExplicitRangeGiven
          /\ IsCanonicalYearMonth(s) /\ IsCanonicalYearMonth(e)
          /\ MonthIndex(s) <= MonthIndex(e)
          /\ event.batch_size >= 1 )
        => ppc # "error"

----------------------------------------------------------------------------
(* Claims about the worker run (checked under SpecWorker)                  *)

\* the start_date of row i of df, as the loop reads it
RowStart(i) == Strip(df[i].start_date)

TodayIndex == 12 * utc_today.year + utc_today.month - 1

Min2(a, b) == IF a <= b THEN a ELSE b
Max2(a, b) == IF a >= b THEN a ELSE b

\* effective_end = min(range end, current UTC month), in the calendar
EffectiveEndIndex == Min2(MonthIndex(winput.end_year_month), TodayIndex)

\* both bounds of the run's range are canonical YYYY-MM months
CanonicalRange ==
    IsCanonicalYearMonth(winput.start_year_month) /\ IsCanonicalYearMonth(winput.end_year_month)

\* the months requested for row i, in the order of the requests
RowMonths(i) ==
    LET OfRow(r) == r.row = i
        rs == SelectSeq(requests, OfRow)
    IN  [k \in 1..Len(rs) |-> rs[k].month]

\* the canonical months lo..hi (month indices), ascending
MonthsFromTo(lo, hi) ==
    [k \in 1..Max2(0, hi - lo + 1) |->
        FormatYearMonth((lo + k - 1) \div 12, ((lo + k - 1) % 12) + 1)]

\* C9: in a finished run, a row whose start_date is not a valid YearMonth
\* (canonical YYYY-MM), or is later in the calendar than
\* min(range end, current UTC month), is counted as skipped and has no
\* request; every other row is not counted as skipped.  (Stated for runs whose
\* range bounds are canonical.)
C9_SkippedSymbols ==
    (wpc = "done" /\ CanonicalRange)
    => /\ \A i \in 1..Len(df) :
            LET mustSkip == \/ ~IsCanonicalYearMonth(RowStart(i))
                            \/ MonthIndex(RowStart(i)) > EffectiveEndIndex
            IN  /\ (i \in skipped_rows) <=> mustSkip
                /\ mustSkip => RowMonths(i) = <<>>
       /\ stats.skipped_symbols = Cardinality(skipped_rows)

\* C10: in a finished run every non-skipped row is requested exactly the
\* months max(range start, start_date) .. min(range end, current UTC month),
\* once each, ascending across the year end; no request is for a month after
\* the current UTC month or outside the ingest range; total_requests is the
\* number of these requests; and the universe (A, 2020-01), (B, 2019-06)
\* with range 2020-01..2020-02 gives total_requests = 4, skipped_symbols = 0.
\* (Stated for runs whose range bounds are canonical.)
C10_RequestedMonths ==
    (wpc = "done" /\ CanonicalRange)
    => /\ \A i \in (1..Len(df)) \ skipped_rows :
            RowMonths(i) = MonthsFromTo(Max2(MonthIndex(winput.start_year_month),
                                             MonthIndex(RowStart(i))),
                                        EffectiveEndIndex)
       /\ \A k \in DOMAIN requests :
            /\ requests[k].row \notin skipped_rows
            /\ MonthIndex(requests[k].month) <= TodayIndex
            /\ MonthIndex(requests[k].month) >= MonthIndex(winput.start_year_month)
            /\ MonthIndex(requests[k].month) <= MonthIndex(winput.end_year_month)
       /\ stats.total_requests = Len(requests)
       /\ ( /\ df = << Row(<<65>>, FormatYearMonth(2020, 1)),
                       Row(<<66>>, FormatYearMonth(2019, 6)) >>
            /\ winput.start_year_month = FormatYearMonth(2020, 1)
            /\ winput.end_year_month = FormatYearMonth(2020, 2)
            /\ TodayIndex >= MonthIndex(winput.end_year_month) )
          => (stats.total_requests = 4 /\ stats.skipped_symbols = 0)

\* every start_date of df is a canonical YYYY-MM month or does not parse
CanonicalRows ==
    \A i \in 1..Len(df) :
        IsCanonicalYearMonth(RowStart(i)) \/ ~StrptimeYearMonthOK(RowStart(i))

\* the (symbol, month) tasks of row i: max(range start, start_date) ..
\* min(range end, current UTC month)
Expansion(i) ==
    MonthsFromTo(Max2(MonthIndex(winput.start_year_month), MonthIndex(RowStart(i))),
                 EffectiveEndIndex)

\* request k of the run is for month m of row i
RequestIs(k, i, m) == requests[k].row = i /\ requests[k].month = m

\* C11: a failed fetch never cuts the run short.  In a finished run over
\* canonical months every task of every non-skipped row is attempted exactly
\* once, whatever the Ok/Err outcomes were; after an Err for (symbol, month)
\* all later months of that row and all months of every later row are still
\* attempted.
C11_ErrDoesNotCutShort ==
    (wpc = "done" /\ CanonicalRange /\ CanonicalRows)
    => /\ \A i \in (1..Len(df)) \ skipped_rows : RowMonths(i) = Expansion(i)
       /\ \A k \in DOMAIN requests :
            ~requests[k].ok =>
                /\ \A n \in DOMAIN Expansion(requests[k].row) :
                        MonthIndex(Expansion(requests[k].row)[n]) > MonthIndex(requests[k].month)
                        => \E j \in (k + 1)..Len(requests) :
                                RequestIs(j, requests[k].row, Expansion(requests[k].row)[n])
                /\ \A i \in ((requests[k].row + 1)..Len(df)) \ skipped_rows :
                        \A n \in DOMAIN Expansion(i) :
                            \E j \in (k + 1)..Len(requests) : RequestIs(j, i, Expansion(i)[n])

\* C11 witness: a finished run in which the first of three months of the
\* first row failed, the other two months were attempted, and a later row too
C11_Witness ==
    /\ wpc = "done" /\ CanonicalRange /\ CanonicalRows
    /\ Len(df) = 2 /\ skipped_rows = {}
    /\ Len(Expansion(1)) = 3
    /\ Len(requests) >= 4
    /\ ~requests[1].ok /\ requests[2].row = 1 /\ requests[3].row = 1
    /\ requests[4].row = 2

\* the pairs fetched in the run, and the last request of a pair
FetchedPairs == { <<requests[k].symbol, requests[k].month>> : k \in DOMAIN requests }
LastRequestOf(pair) ==
    CHOOSE k \in DOMAIN requests :
        /\ <<requests[k].symbol, requests[k].month>> = pair
        /\ \A j \in (k + 1)..Len(requests) : <<requests[j].symbol, requests[j].month>> # pair

\* C12: at the end of a run unresolved_error_requests is the number of
\* distinct (symbol, month) pairs whose most recent fetch returned Err, also
\* when a symbol is listed in more than one row.
C12_UnresolvedIsLastFailed ==
    wpc = "done"
    => stats.unresolved_error_requests =
          Cardinality({ pair \in FetchedPairs : ~requests[LastRequestOf(pair)].ok })

\* C12 witness: a pair fetched twice (the symbol is listed twice), failing
\* first and succeeding last, in a finished run
C12_Witness ==
    /\ wpc = "done"
    /\ \E j, k \in DOMAIN requests :
          /\ j < k
          /\ requests[j].symbol = requests[k].symbol /\ requests[j].month = requests[k].month
          /\ requests[j].row # requests[k].row
          /\ ~requests[j].ok /\ requests[k].ok
          /\ LastRequestOf(<<requests[k].symbol, requests[k].month>>) = k
    /\ stats.error_requests > stats.unresolved_error_requests

----------------------------------------------------------------------------
(* Claims about the gateway's validation pipeline                          *)

\* the errors a worker run raises before any fetch
ValidationErrors ==
    { "start_year_month is invalid", "end_year_month is invalid",
      "end_year_month is earlier than start_year_month",
      "Input CSV must contain 'symbol' and 'start_date' columns" }

\* C13: once the range and the schema have been validated a worker run never
\* raises, whatever each gateway call meets (transport failure, any status,
\* any Content-Type, a body that is not JSON or not an object, a failed
\* write): every call returns an ok/error result and the run ends with its
\* statistics, ok = true.
C13_RunNeverRaises ==
    /\ wpc = "error" => werror \in ValidationErrors
    /\ \A k \in DOMAIN requests : wpc # "error"
    /\ wpc = "done" => stats.ok

\* the outcome of the call's last HTTP attempt
LastOutcome == events[Len(events)].out

\* the steps of the pipeline a response fails, in the order of the claim:
\* 1 status, 2 Content-Type, 3 parse, 4 "Note", 5 "Error Message"
FailsStep(n, resp) ==
    CASE n = 1 -> ~(200 <= resp.status_code /\ resp.status_code <= 299)
      [] n = 2 -> resp.content_type # "application/json"
      [] n = 3 -> resp.body = "invalid"
      [] n = 4 -> resp.body \in {"note", "note+error"}
      [] n = 5 -> resp.body \in {"error", "note+error"}

\* the first step the response fails, 0 if it fails none
FirstFailingStep(resp) ==
    IF \E n \in 1..5 : FailsStep(n, resp)
    THEN CHOOSE n \in 1..5 : FailsStep(n, resp) /\ \A m \in 1..(n - 1) : ~FailsStep(m, resp)
    ELSE 0

\* the error get_symbol_monthly_data reports for a failed step
StepError(n, resp) ==
    CASE n = 1 -> <<"Alpha Vantage API returned HTTP", resp.status_code>>
      [] n = 2 -> <<"Unexpected response format.", 0>>
      [] n = 3 -> <<"Invalid JSON from Alpha Vantage API.", 0>>
      [] n = 4 -> <<"data[Note]", 0>>
      [] n = 5 -> <<"data[Error Message]", 0>>

----------------------------------------------------------------------------
(* Claims about the plan's batches                                         *)

\* C15: an invocation with batch_size <= 0 fails, before the universe table
\* is read; it never returns a plan.
C15_NonPositiveBatchSizeRejected ==
    event.batch_size <= 0 => ppc \notin {"read", "done"}

\* C16: every descriptor of a returned plan carries the plan's ingest range
\* (ingest_year_month_start, ingest_year_month_end), not the glue range where
\* the two differ, and the trigger's symbols_s3_uri.
C16_DescriptorsCarryIngestRange ==
    ppc = "done"
    => \A k \in DOMAIN plan.batches :
          /\ plan.batches[k].year_month_start = plan.ingest_year_month_start
          /\ plan.batches[k].year_month_end = plan.ingest_year_month_end
          /\ plan.batches[k].year_month_start = year_month_start
          /\ plan.batches[k].year_month_end = year_month_end
          /\ plan.glue_year_month_start # plan.ingest_year_month_start
                => plan.batches[k].year_month_start # plan.glue_year_month_start
          /\ plan.batches[k].symbols_s3_uri = event.symbols_s3_uri

\* C16 witness: a returned plan of two batches whose glue range is wider than
\* its ingest range
C16_Witness ==
    /\ ppc = "done"
    /\ Len(plan.batches) >= 2
    /\ plan.glue_year_month_start # plan.ingest_year_month_start
    /\ plan.batches[2].year_month_start = plan.ingest_year_month_start

\* C19: the three gateway operations classify a response alike: whichever
\* of get_symbol_monthly_data, symbol_search and _fetch_monthly_adjusted made
\* the call, its ok flag and its error message are those
\* get_symbol_monthly_data gives for the same response (a body with both
\* "Note" and "Error Message" gives the Note error from each).
C19_SamePipelineInAllOperations ==
    (rpc = "done" /\ LastOutcome.kind = "resp")
    => /\ result.ok = GetSymbolMonthlyData(FALSE, response, FALSE, TRUE).ok
       /\ result.error = GetSymbolMonthlyData(FALSE, response, FALSE, TRUE).error
       /\ result.exception = GetSymbolMonthlyData(FALSE, response, FALSE, TRUE).exception

----------------------------------------------------------------------------
(* Claims about the workers of one plan (checked under SpecFleet)          *)

\* C17: when the workers of a plan's batches run concurrently on the same
\* universe table, no (symbol, month) is requested by the workers of two
\* different batches, whatever universe the planner accepted.
C17_NoPairInTwoInvocations ==
    \A f, g \in fetched :
        ( /\ f.invocation # g.invocation
          /\ invocations[f.invocation].batch # invocations[g.invocation].batch )
        => <<f.symbol, f.month>> # <<g.symbol, g.month>>

\* the key and the object the claim names for (symbol, month)
ExpectedKey(symbol, month) ==
    << S3_BRONZE_PREFIX, "alpha_vantage", "intraday_1min", <<"symbol=", symbol>>,
       <<"month=", month>>, "raw.json" >>
ExpectedObject(symbol, month) ==
    [key |-> ExpectedKey(symbol, month), body |-> JsonBytes(Payload(symbol, month))]

\* the pairs some invocation has written
WrittenPairs == { <<f.symbol, f.month>> : f \in {g \in fetched : g.stored} }

\* C18: persistence is idempotent by key.  Under every interleaving of two
\* worker runs (of the same batch or not) over the same range, the bucket
\* holds exactly one object per written (symbol, month), under the key
\* <prefix>/alpha_vantage/intraday_1min/symbol=<S>/month=<M>/raw.json, with the
\* bytes of that pair's payload; two finished runs of the same batch whose
\* writes all succeeded leave what one of them alone leaves.
C18_IdempotentByKey ==
    /\ bucket = { ExpectedObject(pair[1], pair[2]) : pair \in WrittenPairs }
    /\ Cardinality(bucket) = Cardinality(WrittenPairs)
    /\ ( /\ \A w \in Invocations : invocations[w].pc = "done"
         /\ invocations[1].batch = invocations[2].batch
         /\ \A f \in fetched : f.stored )
       => bucket = { ExpectedObject(f.symbol, f.month) :
                        f \in {g \in fetched : g.invocation = 1} }

\* C18 witness: two finished runs of the same batch, every write succeeded,
\* each pair written by both
C18_Witness ==
    /\ \A w \in Invocations : invocations[w].pc = "done"
    /\ invocations[1].batch = invocations[2].batch
    /\ \A f \in fetched : f.stored
    /\ Cardinality(WrittenPairs) >= 2
    /\ \A pair \in WrittenPairs : \A w \in Invocations :
          [invocation |-> w, symbol |-> pair[1], month |-> pair[2], stored |-> TRUE] \in fetched
    /\ Cardinality(bucket) = Cardinality(WrittenPairs)

----------------------------------------------------------------------------
(* Claims about the worker's statistics and the bronze objects             *)

\* C22: every (symbol, month) counted in success_requests has its payload
\* stored under its bronze key at that moment; a failed write is not counted
\* as a success.
C22_SuccessMeansStored ==
    /\ \A k \in DOMAIN requests :
          requests[k].ok => <<requests[k].symbol, requests[k].month>> \in store
    /\ wpc \in {"symbols", "months", "done"} =>
          st.success_requests <=
              Cardinality({k \in DOMAIN requests :
                              <<requests[k].symbol, requests[k].month>> \in store})

\* C23: a fetch that ends in an error result leaves the store unchanged, a
\* skipped symbol causes no request and no write, and the store changes only
\* by the object of a pair whose fetch has just returned ok.
C23_ErrorLeavesStoreUnchanged ==
    [][ /\ ( /\ Len(requests') = Len(requests) + 1
             /\ ~requests'[Len(requests')].ok )
           => store' = store
        /\ skipped_rows' # skipped_rows => (store' = store /\ requests' = requests)
        /\ store' # store =>
              /\ Len(requests') = Len(requests) + 1
              /\ requests'[Len(requests')].ok
              /\ store' = store \cup {<<requests'[Len(requests')].symbol,
                                         requests'[Len(requests')].month>>} ]_vars

\* C23 witness: a finished run with a skipped row, a failed pair that has no
\* object, and another pair that has one
C23_Witness ==
    /\ wpc = "done"
    /\ skipped_rows # {}
    /\ store # {}
    /\ \E k \in DOMAIN requests :
          ~requests[k].ok /\ <<requests[k].symbol, requests[k].month>> \notin store

\* the symbols of the requests that returned an error
SymbolsOfErrors == { requests[k].symbol : k \in {j \in DOMAIN requests : ~requests[j].ok} }

\* C24: the statistics are consistent after every completed (symbol, month)
\* step and in the returned stats: total = success + error, processed +
\* skipped = total_symbols, unresolved <= error, and symbols_with_errors is
\* the set of symbols with at least one failed request (empty iff
\* error_requests = 0).
C24_StatsConsistent ==
    /\ wpc \in {"symbols", "months"} =>
          /\ st.total_requests = st.success_requests + st.error_requests
          /\ st.total_requests = Len(requests)
          /\ Cardinality(st.failed_pairs) <= st.error_requests
          /\ st.symbols_with_errors = SymbolsOfErrors
          /\ (st.symbols_with_errors = {}) <=> (st.error_requests = 0)
          /\ st.skipped_symbols = Cardinality(skipped_rows)
    /\ wpc = "done" =>
          /\ stats.total_requests = stats.success_requests + stats.error_requests
          /\ stats.total_requests = Len(requests)
          /\ stats.processed_symbols + stats.skipped_symbols = stats.total_symbols
          /\ stats.total_symbols = Len(df)
          /\ stats.unresolved_error_requests <= stats.error_requests
          /\ stats.symbols_with_errors = SymbolsOfErrors
          /\ (stats.symbols_with_errors = {}) <=> (stats.error_requests = 0)

\* C24 witness: a finished run with a skipped row, a failed and a successful
\* request
C24_Witness ==
    /\ wpc = "done"
    /\ stats.skipped_symbols >= 1
    /\ stats.error_requests >= 1
    /\ stats.success_requests >= 1
    /\ stats.symbols_with_errors # {}

----------------------------------------------------------------------------
(* Claims about batch membership (checked under SpecFleet)                 *)

\* C26: the worker run on a batch descriptor against the planner's universe
\* table loads exactly the rows of that chunk: its total_symbols (the length
\* of the loaded table) equals the length of the descriptor's symbols_subset.
C26_WorkerLoadsItsChunk ==
    \A w \in Invocations :
        invocations[w].pc \in {"symbols", "months", "done"} =>
            Len(invocations[w].df) =
                Len(plan.batches[invocations[w].batch].symbols_subset)

----------------------------------------------------------------------------
(* Claims about a whole run with its HTTP attempts (checked under SpecPaced) *)

IsAttemptMark(p) == timeline[p].ev = "attempt"

\* p and q are consecutive HTTP attempts of the run
ConsecutiveAttempts(p, q) ==
    /\ p < q
    /\ IsAttemptMark(p)
    /\ IsAttemptMark(q)
    /\ \A k \in (p + 1)..(q - 1) : ~IsAttemptMark(k)

\* C21: every two consecutive HTTP attempts of a run are separated by exactly
\* one sleep of at least RATE_LIMIT_SLEEP_SECONDS: the backoff sleep when the
\* second is a retry of the same gateway call, the worker's fixed sleep when
\* it is the first attempt of the next call; and once the worker has accounted
\* a gateway call, ok or not, it has slept the fixed interval exactly once
\* since that call's last attempt.
C21_AttemptsArePaced ==
    /\ \A p, q \in DOMAIN timeline :
          ConsecutiveAttempts(p, q) =>
              /\ q = p + 2
              /\ timeline[p + 1].slept >= RATE_LIMIT_SLEEP_SECONDS
              /\ timeline[p + 1].call = timeline[p].call
              /\ IF timeline[q].call = timeline[p].call
                 THEN /\ timeline[p + 1].ev = "backoff"
                      /\ timeline[q].att = timeline[p].att + 1
                 ELSE /\ timeline[p + 1].ev = "pace"
                      /\ timeline[p + 1].slept = RATE_LIMIT_SLEEP_SECONDS
                      /\ timeline[q].call = timeline[p].call + 1
                      /\ timeline[q].att = 1
    /\ (wpc \in {"symbols", "months", "done"} /\ rpc = "idle" /\ requests # <<>>) =>
          /\ Len(timeline) >= 2
          /\ timeline[Len(timeline)] = PaceMark(Len(requests))
          /\ timeline[Len(timeline) - 1].ev = "attempt"
          /\ timeline[Len(timeline) - 1].call = Len(requests)

\* C21 witness: the first call was retried and accounted as an error, the
\* worker slept, and the first attempt of the second call has been made
C21_Witness ==
    /\ Len(requests) = 1
    /\ ~requests[1].ok
    /\ Len(timeline) = 3
    /\ timeline[1].ev = "attempt" /\ timeline[1].call = 1 /\ timeline[1].att = 2
    /\ timeline[2] = PaceMark(1)
    /\ timeline[3] = AttemptMark(2, 1)

\* C25: every worker run that has passed its input checks and loaded its
\* table terminates and returns its statistics, provided each HTTP attempt
\* eventually returns or fails.
C25_RunReturnsStats == (wpc = "symbols") ~> (wpc = "done" /\ stats.ok)

====
